---- MODULE Spec2Model ----
(***************************************************************************)
(* DebateCoordinator of cf_ai_decision_agent (src/src/server.ts): decision *)
(* turns (classification, provider fan-out, synthesis, background          *)
(* persistence) and the incident store operations getIncidents and         *)
(* deleteIncident, over the single in-memory coordinator state.            *)
(*                                                                         *)
(* Strings are sequences of one-character strings, so that substring       *)
(* search, case folding, trimming and splitting are computed.              *)
(***************************************************************************)
EXTENDS Integers, Sequences, FiniteSets, TLC

\* ------------------------------------------------------------------ bounds
\* Number of chat turns that may be in progress or finished.
MaxTurns == 2
\* The clock (new Date()) takes the values 0..MaxTime.
MaxTime == 2

Turns == 1..MaxTurns
Roles == {"reliability", "cost", "ux"}

\* ------------------------------------------------------- string primitives
UpperCase == <<"A", "B", "C", "D", "E", "F", "G", "H", "I", "J", "K", "L", "M", "N", "O", "P", "Q", "R", "S", "T", "U", "V", "W", "X", "Y", "Z">>
LowerCase == <<"a", "b", "c", "d", "e", "f", "g", "h", "i", "j", "k", "l", "m", "n", "o", "p", "q", "r", "s", "t", "u", "v", "w", "x", "y", "z">>

\* the lower-case letter of each upper-case letter
LowerOf == [c \in {UpperCase[i] : i \in 1..Len(UpperCase)} |->
              LowerCase[CHOOSE i \in 1..Len(UpperCase) : UpperCase[i] = c]]

toLowerChar(c) == IF c \in DOMAIN LowerOf THEN LowerOf[c] ELSE c

\* String.prototype.toLowerCase
toLowerCase(s) == [i \in 1..Len(s) |-> toLowerChar(s[i])]

\* s has the string q at (1-based) position p
HasAt(s, q, p) == p >= 1 /\ p + Len(q) - 1 <= Len(s) /\ SubSeq(s, p, p + Len(q) - 1) = q

\* String.prototype.includes
includes(s, q) == \E p \in 1..(Len(s) + 1) : HasAt(s, q, p)

\* \s of a regular expression, and the characters String.prototype.trim strips
IsSpace(c) == c \in {" ", "\n", "\t", "\r"}
\* the characters "." of a regular expression does not match
IsLineTerminator(c) == c \in {"\n", "\r"}

\* String.prototype.trim
trim(s) ==
    LET keep == {i \in 1..Len(s) : ~IsSpace(s[i])}
    IN IF keep = {} THEN <<>>
       ELSE SubSeq(s, CHOOSE x \in keep : \A y \in keep : x <= y,
                      CHOOSE x \in keep : \A y \in keep : x >= y)

\* ---------------------------------------------------------- fixed literals
RELIABILITY_FALLBACK == <<"R", "e", "l", "i", "a", "b", "i", "l", "i", "t", "y", " ", "A", "g", "e", "n", "t", " ", "u", "n", "a", "v", "a", "i", "l", "a", "b", "l", "e", ".">>
COST_FALLBACK == <<"C", "o", "s", "t", " ", "A", "g", "e", "n", "t", " ", "u", "n", "a", "v", "a", "i", "l", "a", "b", "l", "e", ".">>
UX_FALLBACK == <<"U", "X", " ", "/", " ", "U", "s", "e", "r", " ", "I", "m", "p", "a", "c", "t", " ", "A", "g", "e", "n", "t", " ", "u", "n", "a", "v", "a", "i", "l", "a", "b", "l", "e", ".">>
NO_DECISION == <<"N", "o", " ", "c", "l", "e", "a", "r", " ", "d", "e", "c", "i", "s", "i", "o", "n", " ", "r", "e", "a", "c", "h", "e", "d">>
DEFAULT_REASON == <<"D", "e", "c", "i", "s", "i", "o", "n", " ", "m", "a", "d", "e", " ", "b", "a", "s", "e", "d", " ", "o", "n", " ", "a", "g", "e", "n", "t", " ", "p", "e", "r", "s", "p", "e", "c", "t", "i", "v", "e", "s">>

\* bug variant of Fallback: every catch block substitutes the same literal
FallbackCopied(role) == RELIABILITY_FALLBACK

Fallback(role) ==
    CASE role = "reliability" -> RELIABILITY_FALLBACK
      [] role = "cost" -> COST_FALLBACK
      [] role = "ux" -> UX_FALLBACK

\* /\*\*Final Recommendation:\*\*/i and /\*\*Why/i, case folded
FinalMarker == <<"*", "*", "f", "i", "n", "a", "l", " ", "r", "e", "c", "o", "m", "m", "e", "n", "d", "a", "t", "i", "o", "n", ":", "*", "*">>
WhyMarker == <<"*", "*", "w", "h", "y">>
Stars == <<"*", "*">>

decisionKeywords == {
    <<"r", "o", "l", "l", "b", "a", "c", "k">>,
    <<"d", "e", "p", "l", "o", "y">>,
    <<"h", "o", "t", "f", "i", "x">>,
    <<"l", "a", "u", "n", "c", "h">>,
    <<"r", "e", "l", "e", "a", "s", "e">>,
    <<"s", "h", "o", "u", "l", "d", " ", "w", "e">>,
    <<"d", "e", "c", "i", "s", "i", "o", "n">> }

\* bug variant of isDecisionQuestion: the question is not lower-cased
isDecisionQuestionCased(q) == \E kw \in decisionKeywords : includes(q, kw)

\* bug variant of isDecisionQuestion: every question is a decision question
isDecisionQuestionAlways(q) == TRUE

\* decisionKeywords.some(keyword => userQuestion.toLowerCase().includes(keyword))
isDecisionQuestion(q) == \E kw \in decisionKeywords : includes(toLowerCase(q), kw)

\* -------------------------------------------------- extraction (lines 577-595)
MinOf(S) == CHOOSE x \in S : \A y \in S : x <= y
MaxOf(S) == CHOOSE x \in S : \A y \in S : x >= y

\* number of characters \s* takes greedily from position from
LeadSpaces(text, from) ==
    MaxOf({k \in 0..(Len(text) - from + 1) : \A i \in from..(from + k - 1) : IsSpace(text[i])})

\* last position of the run of characters "." matches that starts at s
RunEnd(text, s) ==
    MaxOf({e \in (s - 1)..Len(text) : \A i \in s..e : ~IsLineTerminator(text[i])})

\* (.+?)(?:\n|$) matches at s: at least one character, then a newline or the end
CaptureOK(text, s) ==
    /\ s <= Len(text)
    /\ ~IsLineTerminator(text[s])
    /\ (RunEnd(text, s) = Len(text) \/ text[RunEnd(text, s) + 1] = "\n")

\* the lengths \s* may take (greedy first, then backtracking) so that the rest matches
DecisionSkips(text, p) ==
    {k \in 0..LeadSpaces(text, p + Len(FinalMarker)) : CaptureOK(text, p + Len(FinalMarker) + k)}

\* the positions where /\*\*Final Recommendation:\*\*\s*(.+?)(?:\n|$)/i matches
DecisionStarts(text) ==
    {p \in 1..Len(text) : HasAt(toLowerCase(text), FinalMarker, p) /\ DecisionSkips(text, p) # {}}

\* decisionMatch ? decisionMatch[1].trim() : "No clear decision reached"
extractDecision(text) ==
    IF DecisionStarts(text) = {} THEN NO_DECISION
    ELSE LET p == MinOf(DecisionStarts(text))
             s == p + Len(FinalMarker) + MaxOf(DecisionSkips(text, p))
         IN trim(SubSeq(text, s, RunEnd(text, s)))

\* the positions j where .*?\*\* may close the marker opened at p
WhyCloses(text, p) ==
    {j \in (p + Len(WhyMarker))..Len(text) :
        /\ HasAt(text, Stars, j)
        /\ \A i \in (p + Len(WhyMarker))..(j - 1) : ~IsLineTerminator(text[i])}

\* the positions where /\*\*Why.*?\*\*([\s\S]*?)(?:\*\*|$)/i matches
WhyStarts(text) ==
    {p \in 1..Len(text) : HasAt(toLowerCase(text), WhyMarker, p) /\ WhyCloses(text, p) # {}}

\* reasoningMatches[1]: from the closing ** to the next ** or the end
WhyBlock(text) ==
    LET p == MinOf(WhyStarts(text))
        c == MinOf(WhyCloses(text, p)) + Len(Stars)
        next == {m \in c..Len(text) : HasAt(text, Stars, m)}
    IN SubSeq(text, c, IF next = {} THEN Len(text) ELSE MinOf(next) - 1)

\* String.prototype.split(/-/)
splitDash(s) ==
    LET D == {i \in 1..Len(s) : s[i] = "-"}
        cut(n) == IF n = 0 THEN 0
                  ELSE IF n = Cardinality(D) + 1 THEN Len(s) + 1
                  ELSE CHOOSE i \in D : Cardinality({j \in D : j < i}) = n - 1
    IN [n \in 1..(Cardinality(D) + 1) |-> SubSeq(s, cut(n - 1) + 1, cut(n) - 1)]

NonBlank(r) == trim(r) # <<>>

\* .slice(0, 3)
MaxReasons == 3

\* .split(/-/).filter((r) => r.trim()).map((r) => r.trim()).slice(0, 3)
bullets(block) ==
    LET kept == SelectSeq(splitDash(block), NonBlank)
        trimmed == [i \in 1..Len(kept) |-> trim(kept[i])]
    IN SubSeq(trimmed, 1, IF Len(trimmed) < MaxReasons THEN Len(trimmed) ELSE MaxReasons)

\* bug variant of extractReasoning: no fallback entry
extractReasoningBare(text) ==
    IF WhyStarts(text) = {} THEN <<>> ELSE bullets(WhyBlock(text))

\* reasoningMatches ? ... : ["Decision made based on agent perspectives"]
extractReasoning(text) ==
    IF WhyStarts(text) = {} THEN <<DEFAULT_REASON>> ELSE bullets(WhyBlock(text))

\* ------------------------------------------------------- metrics extraction
ErrorRateWords == <<"e", "r", "r", "o", "r", " ", "r", "a", "t", "e">>
LatencyWords == {<<"l", "a", "t", "e", "n", "c", "y">>, <<"p", "9", "5">>}
Digits == <<"0", "1", "2", "3", "4", "5", "6", "7", "8", "9">>
DigitOf == [c \in {Digits[i] : i \in 1..Len(Digits)} |-> (CHOOSE i \in 1..Len(Digits) : Digits[i] = c) - 1]

\* the character classes \d, [\d.] and [:\s]
IsDigit == DOMAIN DigitOf
IsDigitOrDot == IsDigit \cup {"."}
IsColonOrSpace == {":", " ", "\n", "\t", "\r"}

\* number of characters a greedy class+ or class* takes from position from
RunLen(text, from, class) ==
    MaxOf({k \in 0..(Len(text) - from + 1) : \A i \in from..(from + k - 1) : text[i] \in class})

\* [:\s]+([\d.]+ then unit, matched from position a on: the capture as <<first,
\* last>>, or <<>> when there is no match. The classes are disjoint, so the greedy
\* runs are the only way to match; unit is "%" (optional) or "m" (required, with an
\* optional "s")
NumberAfter(text, a, unit) ==
    LET sp == RunLen(text, a, IsColonOrSpace)
        d == a + sp
        n == RunLen(text, d, IsDigitOrDot)
        e == d + n
        has(c, i) == i <= Len(text) /\ toLowerChar(text[i]) = c
    IN IF sp = 0 \/ n = 0 THEN <<>>
       ELSE IF unit = "%" THEN <<d, IF has("%", e) THEN e ELSE e - 1>>
       ELSE IF has("m", e) THEN <<d, IF has("s", e + 1) THEN e + 1 ELSE e>>
       ELSE <<>>

\* the captures of the matches of a pattern that starts with one of words, by the
\* position where the match starts
MatchesOf(text, words, unit) ==
    {<<p, NumberAfter(text, p + Len(w), unit)>> :
        <<p, w>> \in {x \in (1..Len(text)) \X words :
                        /\ HasAt(toLowerCase(text), x[2], x[1])
                        /\ NumberAfter(text, x[1] + Len(x[2]), unit) # <<>>}}

\* String.prototype.match without the g flag: the capture of the leftmost match, as
\* <<capture>>, or <<>> for null
firstCapture(text, words, unit) ==
    LET M == MatchesOf(text, words, unit) IN
    IF M = {} THEN <<>>
    ELSE LET p == MinOf({m[1] : m \in M})
             c == (CHOOSE m \in M : m[1] = p)[2]
         IN <<SubSeq(text, c[1], c[2])>>

\* userQuestion.match(/error rate[:\s]+([\d.]+%?)/i)
errorRateMatch(q) == firstCapture(q, {ErrorRateWords}, "%")

\* userQuestion.match(/(?:latency|p95)[:\s]+([\d.]+ms?)/i)
latencyMatch(q) == firstCapture(q, LatencyWords, "m")

RECURSIVE DecimalValue(_)
DecimalValue(ds) == IF ds = <<>> THEN 0 ELSE 10 * DecimalValue(SubSeq(ds, 1, Len(ds) - 1)) + DigitOf[ds[Len(ds)]]

NaN == [nan |-> TRUE, mant |-> 0, exp |-> 0]

\* mant / 10^exp without trailing zeros in the fraction
RECURSIVE Normal(_, _)
Normal(mant, exp) ==
    IF exp > 0 /\ mant % 10 = 0 THEN Normal(mant \div 10, exp - 1)
    ELSE [nan |-> FALSE, mant |-> mant, exp |-> exp]

\* parseFloat on a string that starts with a digit or a dot: the value of the
\* longest prefix that is a decimal literal (digits, then a dot and digits), as
\* mant / 10^exp; NaN when that prefix has no digit
parseFloat(str) ==
    LET k == RunLen(str, 1, IsDigit)
        dot == k + 1 <= Len(str) /\ str[k + 1] = "."
        m == IF dot THEN RunLen(str, k + 2, IsDigit) ELSE 0
    IN IF k + m = 0 THEN NaN
       ELSE Normal(DecimalValue(SubSeq(str, 1, k) \o SubSeq(str, k + 2, k + 1 + m)), m)

\* the metricsSnapshot of the incident (lines 598-621): <<>> when it is undefined,
\* and in it <<>> for a field that is not set
metricsSnapshot(q) ==
    LET e == errorRateMatch(q)
        l == latencyMatch(q)
    IN IF e = <<>> /\ l = <<>> THEN <<>>
       ELSE <<[errorRate |-> IF e = <<>> THEN <<>> ELSE <<parseFloat(e[1])>>,
               latency |-> IF l = <<>> THEN <<>> ELSE <<parseFloat(l[1])>>]>>

\* ------------------------------------------------------------ model inputs
\* the last user message of a turn
Questions == {
    <<"D", "e", "p", "l", "o", "y", " ", "v", "2", "?">>,
    <<"h", "e", "l", "l", "o">> }

\* what a provider's completion call may return
ProviderTexts(role) ==
    CASE role = "reliability" -> {<<"R", "i", "s", "k", "y">>}
      [] role = "cost" -> {<<"c", "h", "e", "a", "p">>}
      [] role = "ux" -> {<<"U", "s", "e", "r", "s", " ", "o", "k">>}

\* what the synthesis completion may return: the template, and a text without markers
SynthTexts == {
    <<"*", "*", "F", "i", "n", "a", "l", " ", "R", "e", "c", "o", "m", "m", "e", "n", "d", "a", "t", "i", "o", "n", ":", "*", "*", "\n", "R", "o", "l", "l", " ", "b", "a", "c", "k", ".", "\n", "\n", "*", "*", "W", "h", "y", ":", "*", "*", "\n", "-", " ", "A", "\n", "-", " ", "B">>,
    <<"U", "n", "s", "u", "r", "e">> }

\* more last user messages, for the classification of a single turn: the empty
\* text, near misses of a keyword, and keywords in other letter case or inside a
\* word; and questions with metrics, with and without a keyword
WideQuestions == Questions \cup {
    <<>>,
    <<"r", "o", "l", "l", " ", "b", "a", "c", "k">>,
    <<"S", "h", "o", "u", "l", "d", " ", " ", "w", "e">>,
    <<"l", "a", "u", "n", "c", " ", "h">>,
    <<"p", "r", "e", "R", "E", "L", "E", "A", "S", "E", "d">>,
    <<"s", "h", "o", "u", "l", "d", " ", "w", "e", "?">>,
    <<"R", "O", "L", "L", "B", "A", "C", "K", " ", "n", "o", "w">>,
    <<"H", "o", "t", "F", "i", "x", "!">>,
    <<"L", "a", "u", "n", "c", "h", " ", "i", "t">>,
    <<"i", "n", "d", "e", "c", "i", "s", "i", "o", "n", "s">>,
    <<"e", "r", "r", "o", "r", " ", "r", "a", "t", "e", " ", "i", "s", " ", "6", ".", "5", "%", ",", " ", "p", "9", "5", " ", "l", "a", "t", "e", "n", "c", "y", ":", " ", "1", "2", "0", "m", "s">>,
    <<"d", "e", "p", "l", "o", "y", "?", " ", "e", "r", "r", "o", "r", " ", "r", "a", "t", "e", " ", "i", "s", " ", "6", ".", "5", "%", ",", " ", "p", "9", "5", " ", "l", "a", "t", "e", "n", "c", "y", ":", " ", "1", "2", "0", "m", "s">>,
    <<"d", "e", "p", "l", "o", "y", "?", " ", "e", "r", "r", "o", "r", " ", "r", "a", "t", "e", ":", " ", "6", ".", "5", "%">>,
    <<"d", "e", "p", "l", "o", "y", "?", " ", "E", "r", "r", "o", "r", " ", "R", "a", "t", "e", " ", "6", ".", "5", "0", " ", "p", "9", "5", " ", "8", "0", "M", "S">>,
    <<"d", "e", "p", "l", "o", "y", "?", " ", "l", "a", "t", "e", "n", "c", "y", ":", " ", "1", "2", "0">> }

\* more synthesis texts, for the extraction of a single turn: markers with an empty
\* block, one marker without the other, four bullets, an unbolded marker, a hyphen
\* inside a word
WideSynthTexts == SynthTexts \cup {
    <<"*", "*", "W", "h", "y", ":", "*", "*">>,
    <<"*", "*", "F", "i", "n", "a", "l", " ", "R", "e", "c", "o", "m", "m", "e", "n", "d", "a", "t", "i", "o", "n", ":", "*", "*", " ", "G", "o", "\n", "*", "*", "W", "h", "y", ":", "*", "*", "\n">>,
    <<"*", "*", "W", "h", "y", ":", "*", "*", "\n", "-", " ", "A">>,
    <<"*", "*", "F", "i", "n", "a", "l", " ", "R", "e", "c", "o", "m", "m", "e", "n", "d", "a", "t", "i", "o", "n", ":", "*", "*", " ", "G", "o", "\n", "*", "*", "W", "h", "y", ":", "*", "*", "\n", "-", " ", "A", "\n", "-", " ", "B", "\n", "-", " ", "C", "\n", "-", " ", "D">>,
    <<"*", "*", "F", "i", "n", "a", "l", " ", "R", "e", "c", "o", "m", "m", "e", "n", "d", "a", "t", "i", "o", "n", ":", "*", "*", "\n", "\n">>,
    <<"F", "i", "n", "a", "l", " ", "R", "e", "c", "o", "m", "m", "e", "n", "d", "a", "t", "i", "o", "n", ":", " ", "G", "o">>,
    <<"*", "*", "f", "i", "n", "a", "l", " ", "r", "e", "c", "o", "m", "m", "e", "n", "d", "a", "t", "i", "o", "n", ":", "*", "*", " ", "n", "o", "\n", "*", "*", "W", "H", "Y", " ", "n", "o", "w", "?", "*", "*", "\n", "-", " ", "r", "e", "-", "d", "o">> }

\* what the summary completion may return
SummaryTexts == {<<"S", "u", "m">>}

\* the searchQuery argument of getIncidents; <<>> is the absent (or empty) query
Queries == {
    <<>>,
    <<"D", "E", "P">>,
    <<"r", "i", "s", "k">>,
    <<"C", "h", "e", "a", "p">>,
    <<"o", "k">>,
    <<"r", "o", "l", "l">>,
    <<"B", "a", "s", "e", "d", " ", "O", "N">>,
    <<"b">>,
    <<"S", "U", "M">>,
    <<"z", "z">> }

\* the id argument of deleteIncident: 0 is an id generateId never returned
DeleteIds == 0..MaxTurns

\* the last user message as onChatMessage finds it: <<>> when there is no message
\* or no text part, <<q>> when the text part is q
Messages == {<<>>} \cup {<<q>> : q \in WideQuestions}

\* JSON values of the id field of a request body: none, a number, the empty string,
\* a string that is an incident id or the id of no incident
Undefined == [type |-> "undefined", len |-> 0, id |-> 0]
Null == [type |-> "null", len |-> 0, id |-> 0]
IdValues ==
    {Undefined, [type |-> "number", len |-> 0, id |-> 1], [type |-> "string", len |-> 0, id |-> 0]}
        \cup {[type |-> "string", len |-> 1, id |-> d] : d \in DeleteIds}

\* HTTP requests: method, action parameter of the URL, and body: text that is not
\* JSON, the JSON null, or an object with or without id
DeleteRequests ==
    {[method |-> "POST", action |-> "delete-incident", json |-> j, id |-> Undefined] :
        j \in {"invalid", "null"}}
    \cup {[method |-> "POST", action |-> "delete-incident", json |-> "object", id |-> v] :
        v \in IdValues}

Requests ==
    DeleteRequests
    \cup {[method |-> "GET", action |-> "delete-incident", json |-> "object",
           id |-> [type |-> "string", len |-> 1, id |-> 1]],
          [method |-> "POST", action |-> "other", json |-> "object",
           id |-> [type |-> "string", len |-> 1, id |-> 1]]}

\* ------------------------------------------------------------------- state
VARIABLES
    incidents,     \* this.state.incidents
    lastUpdated,   \* this.state.lastUpdated
    now,           \* the clock read by new Date()
    nextId,        \* the next value of generateId()
    pc,            \* per turn: where onChatMessage and its persist task stand
    userQuestion,  \* per turn: userQuestion
    call,          \* per turn and role: the provider call: idle, pending, ok, error
    perspective,   \* per turn and role: reliabilityPerspective, costPerspective, uxPerspective
    incident,      \* per turn: the incident object of the persist task
    lastCall,      \* the store call made last, if the last step was one
    removed,       \* the ids of the records deleteIncident has removed
    appends,       \* per turn: how many times the persist task has appended
    synthesisText, \* per turn: text of the persist task (await synthesis.text)
    handler,       \* per turn: the execute callback of onChatMessage: idle, running, returned
    stream,        \* per turn: what was merged into the writer, and how that stream stands
    aborted,       \* per turn: options.abortSignal has fired
    response       \* the HTTP response sent last, if the last step was a request

vars == <<incidents, lastUpdated, now, nextId, pc, userQuestion, call, perspective,
          incident, lastCall, removed, appends, synthesisText, handler,
          stream, aborted, response>>

NoIncident == [id |-> 0, question |-> <<>>, timestamp |-> 0, status |-> "none",
               metricsSnapshot |-> <<>>,
               hypotheses |-> [r \in Roles |-> <<>>], decision |-> <<>>,
               reasoning |-> <<>>, summary |-> <<>>]

NoCall == [op |-> "none", hit |-> FALSE]

\* from: who answered ("super": the handler of the base class); deletedId is <<>>
\* when the body has no deletedId, and error is "" when it has no error
NoResponse == [from |-> "none", status |-> 0, success |-> FALSE, deletedId |-> <<>>, error |-> ""]

\* initialState, and no turn started
Init ==
    /\ incidents = <<>>
    /\ lastUpdated = 0
    /\ now = 0
    /\ nextId = 1
    /\ pc = [t \in Turns |-> "idle"]
    /\ userQuestion = [t \in Turns |-> <<>>]
    /\ call = [t \in Turns |-> [r \in Roles |-> "idle"]]
    /\ perspective = [t \in Turns |-> [r \in Roles |-> <<>>]]
    /\ incident = [t \in Turns |-> NoIncident]
    /\ lastCall = NoCall
    /\ removed = {}
    /\ appends = [t \in Turns |-> 0]
    /\ synthesisText = [t \in Turns |-> <<>>]
    /\ handler = [t \in Turns |-> "idle"]
    /\ stream = [t \in Turns |-> "none"]
    /\ aborted = [t \in Turns |-> FALSE]
    /\ response = NoResponse

\* ------------------------------------------------------------ a chat turn
\* the classification of each question
Classified == [q \in WideQuestions |-> isDecisionQuestion(q)]

\* lastMessage?.parts?.find((p) => p.type === "text")?.text || "" (lines 470-472)
userQuestionOf(m) == IF m = <<>> THEN <<>> ELSE m[1]

\* bug variant of handlerAt: the execute callback awaits the persist task
handlerAwaitsPersist(at) == IF at \in {"done", "failed", "chat"} THEN "returned" ELSE "running"

\* where the execute callback stands when the turn is at a position: it runs during
\* the fan-out and returns once the synthesis stream is merged and the persist task
\* is started (line 647), or once the regular stream is merged (line 670)
handlerAt(at) == IF at \in Roles THEN "running" ELSE "returned"

\* bug variant of mergedAt: the synthesis is started with the UX call still out
mergedEarly(at) ==
    CASE at \in {"ux", "synthesis"} -> "open"
      [] at = "chat" -> "chat"
      [] OTHER -> "none"

\* what writer.merge has been given when the turn reaches a position: the synthesis
\* stream (line 572), or the stream of the regular chat flow (line 669)
mergedAt(at) ==
    CASE at = "synthesis" -> "open"
      [] at = "chat" -> "chat"
      [] OTHER -> "none"

\* onChatMessage up to the first await of the fan-out (lines 446-499): the question
\* is classified; a decision question calls the reliability agent, any other
\* question takes the regular chat flow (lines 650-670)
ChatMessage(t, q) ==
    /\ pc[t] = "idle"
    /\ \A u \in Turns : u < t => pc[u] # "idle"
    /\ userQuestion' = [userQuestion EXCEPT ![t] = q]
    /\ IF Classified[q]
       THEN /\ pc' = [pc EXCEPT ![t] = "reliability"]
            /\ call' = [call EXCEPT ![t]["reliability"] = "pending"]
       ELSE /\ pc' = [pc EXCEPT ![t] = "chat"]
            /\ UNCHANGED call
    /\ handler' = [handler EXCEPT ![t] = handlerAt(pc'[t])]
    /\ stream' = [stream EXCEPT ![t] = mergedAt(pc'[t])]
    /\ lastCall' = NoCall
    /\ response' = NoResponse
    /\ UNCHANGED <<incidents, lastUpdated, now, nextId, perspective, incident, removed, appends,
                   synthesisText, aborted>>

\* bug variant of AfterRole: the UX call is awaited again
AfterRoleAgain(role) ==
    CASE role = "reliability" -> "cost"
      [] role = "cost" -> "ux"
      [] role = "ux" -> "ux"

\* what follows the try block of a role (lines 494-530)
AfterRole(role) ==
    CASE role = "reliability" -> "cost"
      [] role = "cost" -> "ux"
      [] role = "ux" -> "synthesis"

\* the provider calls that are dispatched when the call of role has been resolved
Dispatched(role) == IF AfterRole(role) \in Roles THEN {AfterRole(role)} ELSE {}

\* the awaited call of a role is resolved with value, as result ("ok") or as the
\* fallback of the catch block ("error"); the code then runs to its next await
Resolve(t, role, outcome, value) ==
    /\ pc[t] = role
    /\ call[t][role] = "pending"
    /\ perspective' = [perspective EXCEPT ![t][role] = value]
    /\ call' = [call EXCEPT ![t] =
                  [r \in Roles |-> IF r = role THEN outcome
                                   ELSE IF r \in Dispatched(role) THEN "pending"
                                   ELSE call[t][r]]]
    /\ pc' = [pc EXCEPT ![t] = AfterRole(role)]
    /\ handler' = [handler EXCEPT ![t] = handlerAt(pc'[t])]
    /\ stream' = [stream EXCEPT ![t] = mergedAt(pc'[t])]
    /\ lastCall' = NoCall
    /\ response' = NoResponse
    /\ UNCHANGED <<incidents, lastUpdated, now, nextId, userQuestion, incident, removed, appends,
                   synthesisText, aborted>>

\* await agent.getPerspective(userQuestion) returns
ProviderReturns(t, role) ==
    \E text \in ProviderTexts(role) : Resolve(t, role, "ok", text)

\* getAgentByName or getPerspective throws: the catch block substitutes the fallback
ProviderThrows(t, role) == Resolve(t, role, "error", Fallback(role))

\* decision and reasoning of each synthesis text
Extracted == [txt \in WideSynthTexts |->
                [decision |-> extractDecision(txt), reasoning |-> extractReasoning(txt)]]

\* the metricsSnapshot of each question
Metrics == [q \in WideQuestions |-> metricsSnapshot(q)]

\* bug variant of NewIncident: the cost perspective is stored for the UX role too
NewIncidentCostTwice(t, txt) ==
    [id |-> nextId,
     question |-> userQuestion[t],
     timestamp |-> now,
     status |-> "open",
     metricsSnapshot |-> Metrics[userQuestion[t]],
     hypotheses |-> [perspective[t] EXCEPT !["ux"] = perspective[t]["cost"]],
     decision |-> Extracted[txt].decision,
     reasoning |-> Extracted[txt].reasoning,
     summary |-> <<>>]

\* the incident object of lines 613-629
NewIncident(t, txt) ==
    [id |-> nextId,
     question |-> userQuestion[t],
     timestamp |-> now,
     status |-> "open",
     metricsSnapshot |-> Metrics[userQuestion[t]],
     hypotheses |-> perspective[t],
     decision |-> Extracted[txt].decision,
     reasoning |-> Extracted[txt].reasoning,
     summary |-> <<>>]

\* the persist task is over: its locals are gone
Discard(t) ==
    /\ userQuestion' = [userQuestion EXCEPT ![t] = <<>>]
    /\ call' = [call EXCEPT ![t] = [r \in Roles |-> "idle"]]
    /\ perspective' = [perspective EXCEPT ![t] = [r \in Roles |-> <<>>]]
    /\ incident' = [incident EXCEPT ![t] = NoIncident]
    /\ synthesisText' = [synthesisText EXCEPT ![t] = <<>>]

\* await synthesis.text resolves (line 577): the persist task extracts the fields,
\* builds the incident and calls generateSummary (lines 578-632)
SynthesisResolves(t, txt) ==
    /\ pc[t] = "synthesis"
    /\ synthesisText' = [synthesisText EXCEPT ![t] = txt]
    /\ incident' = [incident EXCEPT ![t] = NewIncident(t, txt)]
    /\ nextId' = nextId + 1
    /\ pc' = [pc EXCEPT ![t] = "summary"]
    /\ stream' = [stream EXCEPT ![t] = "complete"]
    /\ lastCall' = NoCall
    /\ response' = NoResponse
    /\ UNCHANGED <<incidents, lastUpdated, now, userQuestion, call, perspective, removed, appends,
                   handler, aborted>>

SynthesisCompletes(t) == \E txt \in SynthTexts : SynthesisResolves(t, txt)

\* bug variant of SynthesisFails: the catch block stores a record without decision
SynthesisFailsStored(t) ==
    /\ pc[t] = "synthesis"
    /\ pc' = [pc EXCEPT ![t] = "failed"]
    /\ stream' = [stream EXCEPT ![t] = "error"]
    /\ incidents' = Append(incidents, [NoIncident EXCEPT !.question = userQuestion[t]])
    /\ lastUpdated' = now
    /\ Discard(t)
    /\ lastCall' = NoCall
    /\ response' = NoResponse
    /\ UNCHANGED <<now, nextId, removed, appends, handler, aborted>>

\* bug variant of SynthesisFails: the persist task goes on without the text and
\* commits an incident
SynthesisFailsCommits(t) ==
    /\ pc[t] = "synthesis"
    /\ pc' = [pc EXCEPT ![t] = "done"]
    /\ stream' = [stream EXCEPT ![t] = "error"]
    /\ incidents' = Append(incidents, [NoIncident EXCEPT !.id = nextId, !.status = "open",
                                                         !.summary = <<<<>>>>])
    /\ nextId' = nextId + 1
    /\ lastUpdated' = now
    /\ appends' = [appends EXCEPT ![t] = @ + 1]
    /\ userQuestion' = [userQuestion EXCEPT ![t] = <<>>]
    /\ perspective' = [perspective EXCEPT ![t] = [r \in Roles |-> <<>>]]
    /\ incident' = [incident EXCEPT ![t] = [NoIncident EXCEPT !.id = nextId]]
    /\ lastCall' = NoCall
    /\ response' = NoResponse
    /\ UNCHANGED <<now, call, removed, synthesisText, handler, aborted>>

\* await synthesis.text rejects: caught and logged by the persist task (line 642)
SynthesisFails(t) ==
    /\ pc[t] = "synthesis"
    /\ pc' = [pc EXCEPT ![t] = "failed"]
    /\ stream' = [stream EXCEPT ![t] = "error"]
    /\ Discard(t)
    /\ lastCall' = NoCall
    /\ response' = NoResponse
    /\ UNCHANGED <<incidents, lastUpdated, now, nextId, removed, appends, handler, aborted>>

\* bug variants of appendIncident: the whole collection is replaced by the new
\* record; the record is written twice; the record is written as it was built
appendOverwrite(list, inc) == <<inc>>
appendTwice(list, inc) == list \o <<inc, inc>>
appendBare(list, inc) == Append(list, [inc EXCEPT !.summary = <<>>])
\* and: the record is put in place of a record of the store, when there is one
appendOverLast(list, inc) ==
    IF list = <<>> THEN <<inc>> ELSE [list EXCEPT ![Len(list)] = inc]
\* and: a question that is stored already is not stored again
appendUnlessAsked(list, inc) ==
    IF \E i \in 1..Len(list) : list[i].question = inc.question THEN list ELSE Append(list, inc)

\* [...currentState.incidents, incident]
appendIncident(list, inc) == Append(list, inc)

\* await this.generateSummary(incident) returns: the summary is set on the incident
\* and the state is replaced (lines 632-641); the task is over and of its locals
\* only the id of the incident and the outcome of the provider calls are kept
SummaryReturns(t) ==
    /\ pc[t] = "summary"
    /\ \E s \in SummaryTexts :
          incidents' = appendIncident(incidents, [incident[t] EXCEPT !.summary = <<s>>])
    /\ lastUpdated' = now
    /\ appends' = [appends EXCEPT ![t] = @ + 1]
    /\ pc' = [pc EXCEPT ![t] = "done"]
    /\ userQuestion' = [userQuestion EXCEPT ![t] = <<>>]
    /\ perspective' = [perspective EXCEPT ![t] = [r \in Roles |-> <<>>]]
    /\ incident' = [incident EXCEPT ![t] = [NoIncident EXCEPT !.id = incident[t].id]]
    /\ synthesisText' = [synthesisText EXCEPT ![t] = <<>>]
    /\ lastCall' = NoCall
    /\ response' = NoResponse
    /\ UNCHANGED <<now, nextId, call, removed, handler, stream, aborted>>

\* bug variant of SummaryThrows: the error of the persist task reaches the stream
\* that was merged into the writer
SummaryErrorsStream(t) ==
    /\ pc[t] = "summary"
    /\ pc' = [pc EXCEPT ![t] = "failed"]
    /\ stream' = [stream EXCEPT ![t] = "error"]
    /\ Discard(t)
    /\ lastCall' = NoCall
    /\ response' = NoResponse
    /\ UNCHANGED <<incidents, lastUpdated, now, nextId, removed, appends, handler, aborted>>

\* generateSummary throws: caught and logged by the persist task (line 642)
SummaryThrows(t) ==
    /\ pc[t] = "summary"
    /\ pc' = [pc EXCEPT ![t] = "failed"]
    /\ Discard(t)
    /\ lastCall' = NoCall
    /\ response' = NoResponse
    /\ UNCHANGED <<incidents, lastUpdated, now, nextId, removed, appends, handler, stream,
                   aborted>>

\* generateSummary has returned and this.setState throws (line 636): caught and
\* logged by the persist task (line 642). setState is taken to replace the state or
\* to throw, not both.
SetStateThrows(t) ==
    /\ pc[t] = "summary"
    /\ pc' = [pc EXCEPT ![t] = "failed"]
    /\ Discard(t)
    /\ lastCall' = NoCall
    /\ response' = NoResponse
    /\ UNCHANGED <<incidents, lastUpdated, now, nextId, removed, appends, handler, stream,
                   aborted>>

\* options.abortSignal fires while the turn is in its fan-out or its synthesis is
\* streaming. Nothing in the decision branch reads the signal (lines 488-647): it is
\* passed to streamText in the regular chat flow only (line 667).
Abort(t) ==
    /\ pc[t] \in Roles \cup {"synthesis"}
    /\ ~aborted[t]
    /\ aborted' = [aborted EXCEPT ![t] = TRUE]
    /\ lastCall' = NoCall
    /\ response' = NoResponse
    /\ UNCHANGED <<incidents, lastUpdated, now, nextId, pc, userQuestion, call, perspective,
                   incident, removed, appends, synthesisText, handler, stream>>

\* ------------------------------------------------------------- store calls
\* the filter callback of getIncidents (lines 375-383)
matchesQuery(inc, query) ==
    \/ includes(toLowerCase(inc.question), query)
    \/ includes(toLowerCase(inc.decision), query)
    \/ includes(toLowerCase(inc.hypotheses["reliability"]), query)
    \/ includes(toLowerCase(inc.hypotheses["cost"]), query)
    \/ includes(toLowerCase(inc.hypotheses["ux"]), query)
    \/ \E i \in 1..Len(inc.reasoning) : includes(toLowerCase(inc.reasoning[i]), query)
    \/ (inc.summary # <<>> /\ inc.summary[1] # <<>>
          /\ includes(toLowerCase(inc.summary[1]), query))

\* incidents.filter(...)
filterQuery(list, query) ==
    LET Keep(inc) == matchesQuery(inc, query) IN SelectSeq(list, Keep)

\* bug variant of compareIncidents: oldest first
compareAscending(a, b) == a.timestamp - b.timestamp

\* the comparator of line 387: negative when a is to come before b
compareIncidents(a, b) == b.timestamp - a.timestamp

\* Array.prototype.sort with that comparator: a stable sort
RECURSIVE sortIncidents(_)
sortIncidents(list) ==
    IF Len(list) <= 1 THEN list
    ELSE LET head == sortIncidents(SubSeq(list, 1, Len(list) - 1))
             x == list[Len(list)]
             k == Cardinality({i \in 1..Len(head) : compareIncidents(head[i], x) <= 0})
         IN SubSeq(head, 1, k) \o <<x>> \o SubSeq(head, k + 1, Len(head))

\* the array getIncidents sorts: a query filters into a new array, no query leaves
\* the array of the state itself
\* what getIncidents(searchQuery) returns (lines 369-390)
getIncidentsResult(query) ==
    sortIncidents(IF query # <<>> THEN filterQuery(incidents, toLowerCase(query))
                  ELSE incidents)

\* getIncidents(searchQuery) (lines 369-390): Array.prototype.sort sorts in place,
\* so without a query it is the array of the state that is sorted
GetIncidents(query) ==
    /\ incidents' = IF query # <<>> THEN incidents ELSE sortIncidents(incidents)
    /\ lastCall' = [op |-> "getIncidents", hit |-> query # <<>>]
    /\ response' = NoResponse
    /\ UNCHANGED <<lastUpdated, now, nextId, pc, userQuestion, call, perspective, incident,
                   removed, appends, synthesisText, handler, stream, aborted>>

\* bug variants of removeId: splice(findIndex(...), 1), which removes the last record
\* when no id matches; slice(0, findIndex(...)), which drops what follows the match
removeBySplice(list, id) ==
    IF \E i \in 1..Len(list) : list[i].id = id
    THEN LET Keep(inc) == inc.id # id IN SelectSeq(list, Keep)
    ELSE SubSeq(list, 1, Len(list) - 1)
removeFromMatch(list, id) ==
    IF \E i \in 1..Len(list) : list[i].id = id
    THEN SubSeq(list, 1, (CHOOSE i \in 1..Len(list) : list[i].id = id) - 1)
    ELSE list
\* and: the filter runs on the array as it was before the last append
removeIdStale(list, id) ==
    LET Keep(inc) == inc.id # id IN SelectSeq(SubSeq(list, 1, Len(list) - 1), Keep)
\* and: the record is kept and marked resolved
resolveId(list, id) ==
    [i \in 1..Len(list) |-> IF list[i].id = id THEN [list[i] EXCEPT !.status = "resolved"]
                                                ELSE list[i]]

\* currentState.incidents.filter((i) => i.id !== id)
removeId(list, id) ==
    LET Keep(inc) == inc.id # id IN SelectSeq(list, Keep)

\* what deleteIncident(id) returns (line 405)
deleteIncidentResult(id) == [success |-> TRUE, deletedId |-> id]

IdsOf(list) == {list[i].id : i \in 1..Len(list)}

\* the body of deleteIncident(id) (lines 395-406)
deleteIncident(id) ==
    /\ incidents' = removeId(incidents, id)
    /\ lastUpdated' = now
    /\ lastCall' = [op |-> "deleteIncident", hit |-> id \in IdsOf(incidents)]
    /\ removed' = removed \cup (IdsOf(incidents) \ IdsOf(incidents'))
    /\ UNCHANGED <<now, nextId, pc, userQuestion, call, perspective, incident, appends,
                   synthesisText, handler, stream, aborted>>

\* deleteIncident(id) called on the coordinator
DeleteIncident(id) ==
    /\ deleteIncident(id)
    /\ response' = NoResponse

\* deleteIncident(id) when this.setState throws (line 399): the promise it returns
\* is rejected. setState is taken to replace the state or to throw, not both.
deleteIncidentThrows(id) ==
    /\ lastCall' = [op |-> "deleteIncident", hit |-> id \in IdsOf(incidents)]
    /\ UNCHANGED <<incidents, lastUpdated, removed, now, nextId, pc, userQuestion, call,
                   perspective, incident, appends, synthesisText, handler, stream, aborted>>

\* ------------------------------------------------------------ HTTP requests
\* await request.json().catch(() => null), then body?.id
bodyId(req) == IF req.json = "object" THEN req.id ELSE Undefined

\* bug variant of requestId: any id that is present is taken
requestIdUntyped(req) == bodyId(req)

\* typeof body?.id === "string" ? body.id : null
requestId(req) == IF bodyId(req).type = "string" THEN bodyId(req) ELSE Null

\* !id
falsy(v) ==
    \/ v.type \in {"undefined", "null"}
    \/ v.type = "string" /\ v.len = 0
    \/ v.type = "number" /\ v.id = 0

\* Response.json({success: false, error: "Missing incident id"}, {status: 400})
missingIdResponse ==
    [from |-> "coordinator", status |-> 400, success |-> FALSE, deletedId |-> <<>>,
     error |-> "Missing incident id"]

\* bug variant of internalErrorResponse: the error is thrown on to the runtime
errorEscapes ==
    [from |-> "exception", status |-> 0, success |-> FALSE, deletedId |-> <<>>, error |-> ""]

\* Response.json({success: false, error: "Internal error"}, {status: 500})
internalErrorResponse ==
    [from |-> "coordinator", status |-> 500, success |-> FALSE, deletedId |-> <<>>,
     error |-> "Internal error"]

\* Response.json(result), of the result of deleteIncident
jsonResponse(result) ==
    [from |-> "coordinator", status |-> 200, success |-> result.success,
     deletedId |-> <<result.deletedId>>, error |-> ""]

\* super.fetch(request), or super.onRequest(request) and the 404 that stands in
\* for its missing answer: requests that are not delete-incident requests
superResponse ==
    [from |-> "super", status |-> 0, success |-> FALSE, deletedId |-> <<>>, error |-> ""]

\* no store call, no state change
storeUntouched ==
    /\ lastCall' = NoCall
    /\ UNCHANGED <<incidents, lastUpdated, removed, now, nextId, pc, userQuestion, call,
                   perspective, incident, appends, synthesisText, handler, stream, aborted>>

\* fetch(request) (lines 321-337); storeOk: the state update of deleteIncident succeeds
Fetch(req, storeOk) ==
    IF req.method = "POST" /\ req.action = "delete-incident"
    THEN LET id == requestId(req) IN
         IF falsy(id)
         THEN /\ response' = missingIdResponse
              /\ storeUntouched
         ELSE IF storeOk
         THEN /\ deleteIncident(id.id)
              /\ response' = jsonResponse(deleteIncidentResult(id.id))
         ELSE /\ deleteIncidentThrows(id.id)
              /\ response' = internalErrorResponse
    ELSE /\ response' = superResponse
         /\ storeUntouched

\* bug variant of OnRequest: without the check of line 352, so that any string,
\* empty or not, is passed to deleteIncident
OnRequestUnchecked(req, storeOk) ==
    IF req.method = "POST" /\ req.action = "delete-incident"
    THEN LET id == requestId(req) IN
         IF id.type # "string"
         THEN /\ response' = missingIdResponse
              /\ storeUntouched
         ELSE IF storeOk
         THEN /\ deleteIncident(id.id)
              /\ response' = jsonResponse(deleteIncidentResult(id.id))
         ELSE /\ deleteIncidentThrows(id.id)
              /\ response' = internalErrorResponse
    ELSE /\ response' = superResponse
         /\ storeUntouched

\* onRequest(request) (lines 343-364)
OnRequest(req, storeOk) ==
    IF req.method = "POST" /\ req.action = "delete-incident"
    THEN LET id == requestId(req) IN
         IF falsy(id)
         THEN /\ response' = missingIdResponse
              /\ storeUntouched
         ELSE IF storeOk
         THEN /\ deleteIncident(id.id)
              /\ response' = jsonResponse(deleteIncidentResult(id.id))
         ELSE /\ deleteIncidentThrows(id.id)
              /\ response' = internalErrorResponse
    ELSE /\ response' = superResponse
         /\ storeUntouched

\* time passes
Tick ==
    /\ now < MaxTime
    /\ now' = now + 1
    /\ lastCall' = NoCall
    /\ response' = NoResponse
    /\ UNCHANGED <<incidents, lastUpdated, nextId, pc, userQuestion, call, perspective,
                   incident, removed, appends, synthesisText, handler, stream, aborted>>

Next ==
    \/ \E t \in Turns, q \in Questions : ChatMessage(t, q)
    \/ \E t \in Turns, role \in Roles : ProviderReturns(t, role)
    \/ \E t \in Turns, role \in Roles : ProviderThrows(t, role)
    \/ \E t \in Turns : SynthesisCompletes(t)
    \/ \E t \in Turns : SynthesisFails(t)
    \/ \E t \in Turns : SummaryReturns(t)
    \/ \E t \in Turns : SummaryThrows(t)
    \/ \E t \in Turns : SetStateThrows(t)
    \/ \E query \in Queries : GetIncidents(query)
    \/ \E id \in DeleteIds : DeleteIncident(id)
    \/ Tick

Spec == Init /\ [][Next]_vars

\* an awaited completion call of turn t returns or throws, and the code runs on
TurnStep(t) ==
    \/ \E role \in Roles : ProviderReturns(t, role)
    \/ \E role \in Roles : ProviderThrows(t, role)
    \/ SynthesisCompletes(t)
    \/ SynthesisFails(t)
    \/ SummaryReturns(t)
    \/ SummaryThrows(t)
    \/ SetStateThrows(t)

\* every awaited call is eventually settled: the promise of a completion call that
\* returns or throws is settled, and the event loop then runs the continuation
SpecFair == Spec /\ \A t \in Turns : WF_vars(TurnStep(t))

\* one turn with more messages and synthesis texts, and an abort signal
NextSingleTurn ==
    \/ \E m \in Messages : ChatMessage(1, userQuestionOf(m))
    \/ \E role \in Roles : ProviderReturns(1, role)
    \/ \E role \in Roles : ProviderThrows(1, role)
    \/ \E txt \in WideSynthTexts : SynthesisResolves(1, txt)
    \/ SynthesisFails(1)
    \/ SummaryReturns(1)
    \/ SummaryThrows(1)
    \/ SetStateThrows(1)
    \/ Abort(1)
    \/ \E query \in Queries : GetIncidents(query)
    \/ \E id \in DeleteIds : DeleteIncident(id)
    \/ Tick

SpecSingleTurn == Init /\ [][NextSingleTurn]_vars

\* one turn and the HTTP requests
NextRequests ==
    \/ \E q \in Questions : ChatMessage(1, q)
    \/ \E role \in Roles : ProviderReturns(1, role)
    \/ \E role \in Roles : ProviderThrows(1, role)
    \/ SynthesisCompletes(1)
    \/ SynthesisFails(1)
    \/ SummaryReturns(1)
    \/ SummaryThrows(1)
    \/ SetStateThrows(1)
    \/ \E query \in Queries : GetIncidents(query)
    \/ \E id \in DeleteIds : DeleteIncident(id)
    \/ \E req \in Requests, storeOk \in BOOLEAN : Fetch(req, storeOk)
    \/ \E req \in Requests, storeOk \in BOOLEAN : OnRequest(req, storeOk)
    \/ Tick

SpecRequests == Init /\ [][NextRequests]_vars

\* ------------------------------------------------------------------ claims
Done == {t \in Turns : pc[t] = "done"}
Stored(id) == {i \in 1..Len(incidents) : incidents[i].id = id}

\* C1: turns whose persist tasks interleave at their awaits and all succeed each
\* leave their record in the store: the store holds one record per finished turn,
\* less the records deleteIncident removed, and no append drops or overwrites the
\* record of another turn.
C1_NoLostAppend ==
    /\ Len(incidents) + Cardinality(removed) = Cardinality(Done)
    /\ \A t \in Done :
          Cardinality(Stored(incident[t].id)) = IF incident[t].id \in removed THEN 0 ELSE 1

\* C1 witness: every turn has committed, nothing was deleted, and the record built
\* last was committed first (equal timestamps: no sort has produced this order).
C1_Witness ==
    /\ Done = Turns
    /\ removed = {}
    /\ Len(incidents) = MaxTurns
    /\ incidents[1].id > incidents[2].id
    /\ incidents[1].timestamp = incidents[2].timestamp

\* C2 (as claimed): the three provider calls of a turn are all dispatched before
\* any of them has completed.
C2_ParallelDispatch ==
    \A t \in Turns : \A r1, r2 \in Roles :
        call[t][r1] \in {"ok", "error"} => call[t][r2] # "idle"

Threw(t) == {r \in Roles : call[t][r] = "error"}
C3_Expected(t, r) ==
    IF r \in Threw(t)
    THEN {CASE r = "reliability" -> RELIABILITY_FALLBACK
            [] r = "cost" -> COST_FALLBACK
            [] r = "ux" -> UX_FALLBACK}
    ELSE ProviderTexts(r)

\* C3: when exactly one provider call of a turn has thrown, the turn goes on: the
\* next call is pending, the other two providers return their text, synthesis is
\* reached, and the incident (built, and stored) has the two returned strings and
\* the fallback literal of the role that threw.
C3_OneProviderThrows ==
    \A t \in Turns : Cardinality(Threw(t)) = 1 =>
        /\ pc[t] \in {"cost", "ux", "synthesis", "summary", "done"}
        /\ pc[t] \in Roles => call[t][pc[t]] = "pending"
        /\ pc[t] \in {"synthesis", "summary", "done"} =>
              \A r \in Roles : call[t][r] \in {"ok", "error"}
        /\ pc[t] \in {"synthesis", "summary"} =>
              \A r \in Roles : perspective[t][r] \in C3_Expected(t, r)
        /\ pc[t] = "summary" =>
              \A r \in Roles : incident[t].hypotheses[r] \in C3_Expected(t, r)
        /\ pc[t] = "done" =>
              \A i \in Stored(incident[t].id) : \A r \in Roles :
                  incidents[i].hypotheses[r] \in C3_Expected(t, r)

\* C3 witness: a turn in which only the cost provider threw has its record stored.
C3_Witness ==
    \E t \in Turns :
        /\ pc[t] = "done"
        /\ Threw(t) = {"cost"}
        /\ \E i \in Stored(incident[t].id) :
              /\ incidents[i].hypotheses["cost"] = COST_FALLBACK
              /\ incidents[i].hypotheses["reliability"] \in ProviderTexts("reliability")

C6_SearchReadOnly ==
    [][\A query \in Queries :
          GetIncidents(query) => incidents' = incidents /\ lastUpdated' = lastUpdated]_vars

\* C7: deleteIncident of an id that no record has returns {success: true,
\* deletedId: id} and leaves the incident sequence as it was; after any delete, a
\* second delete of the same id would leave the sequence as it is.
C7_DeleteAbsent ==
    [][\A id \in DeleteIds : DeleteIncident(id) =>
          /\ deleteIncidentResult(id).success /\ deleteIncidentResult(id).deletedId = id
          /\ id \notin IdsOf(incidents) => incidents' = incidents
          /\ id \notin IdsOf(incidents')
          /\ removeId(incidents', id) = incidents']_vars

\* C7 witness: an id that no record had has been deleted from a store with records.
C7_Witness ==
    /\ lastCall = [op |-> "deleteIncident", hit |-> FALSE]
    /\ Len(incidents) >= 1

\* C8: deleteIncident of an id in the store removes the record of that id and
\* nothing else: the records before it and after it stay, unchanged and in order.
C8_DeletePresent ==
    [][\A id \in DeleteIds : (DeleteIncident(id) /\ id \in IdsOf(incidents)) =>
          LET k == CHOOSE i \in 1..Len(incidents) : incidents[i].id = id IN
          /\ deleteIncidentResult(id) = [success |-> TRUE, deletedId |-> id]
          /\ id \notin IdsOf(incidents')
          /\ Len(incidents') = Len(incidents) - 1
          /\ \A i \in 1..Len(incidents') :
                incidents'[i] = IF i < k THEN incidents[i] ELSE incidents[i + 1]]_vars

\* C8 witness: a stored record has been deleted and another record is left.
C8_Witness ==
    /\ lastCall = [op |-> "deleteIncident", hit |-> TRUE]
    /\ removed # {}
    /\ Len(incidents) >= 1

\* the query occurs in the field, letter case apart
C9_Contains(field, query) ==
    LET f == [i \in 1..Len(field) |-> toLowerChar(field[i])]
        q == [i \in 1..Len(query) |-> toLowerChar(query[i])]
    IN \E p \in 0..(Len(f) - Len(q)) : \A j \in 1..Len(q) : f[p + j] = q[j]

C9_Fields(inc) ==
    {inc.question, inc.decision}
        \cup {inc.hypotheses[r] : r \in Roles}
        \cup {inc.reasoning[i] : i \in 1..Len(inc.reasoning)}
        \cup {inc.summary[i] : i \in 1..Len(inc.summary)}

\* C9: in every state, for every query, getIncidents returns the records newest
\* first; all of them for the empty query, and otherwise exactly those of which
\* the question, the decision, a hypothesis, a reasoning entry or the summary
\* contains the query, letter case apart.
C9_SearchResult ==
    \A query \in Queries :
        LET found == getIncidentsResult(query) IN
        /\ \A i, j \in 1..Len(found) : i < j => found[i].timestamp >= found[j].timestamp
        /\ \A i, j \in 1..Len(found) : found[i] = found[j] => i = j
        /\ {found[i] : i \in 1..Len(found)} =
              {incidents[i] : i \in {k \in 1..Len(incidents) :
                  query = <<>> \/ \E f \in C9_Fields(incidents[k]) : C9_Contains(f, query)}}

\* C9 witness: a search with a query has run on a store that holds an older record
\* before a newer one, and some query finds one of the two records only.
C9_Witness ==
    /\ lastCall = [op |-> "getIncidents", hit |-> TRUE]
    /\ Len(incidents) = 2
    /\ incidents[1].timestamp < incidents[2].timestamp
    /\ \E query \in Queries : Len(getIncidentsResult(query)) = 1
    /\ getIncidentsResult(<<>>) = <<incidents[2], incidents[1]>>

\* C10 (as claimed): the incident sequence changes only in a state update that
\* also sets lastUpdated to the current instant.
C10_MutationStampsTime ==
    [][incidents' # incidents => lastUpdated' = now']_vars

\* the turns that can be started now
C11_Startable == {u \in Turns : pc[u] = "idle" /\ \A v \in Turns : v < u => pc[v] # "idle"}

\* C11: a failure of the persist task (the summary call or the state update throws,
\* or the awaited synthesis text rejects) ends in its catch block: the execute
\* callback has returned and stays returned, a synthesis stream that was delivered
\* complete stays complete, no other turn is touched, and a turn that has not
\* started can still be started.
C11_PersistFailureContained ==
    /\ [](\A t \in Turns : pc[t] = "failed" =>
            /\ handler[t] = "returned"
            /\ stream[t] \in {"complete", "error"}
            /\ \A u \in C11_Startable : ENABLED (\E q \in Questions : ChatMessage(u, q)))
    /\ [][\A t \in Turns : (pc[t] \in {"synthesis", "summary"} /\ pc'[t] = "failed") =>
            /\ handler[t] = "returned" /\ handler' = handler
            /\ stream[t] = "complete" => stream'[t] = "complete"
            /\ \A u \in Turns \ {t} : pc'[u] = pc[u] /\ stream'[u] = stream[u]]_vars

\* C11 witness: the persist task of the first turn failed after its synthesis was
\* delivered complete, and the second turn has run to its stored record.
C11_Witness ==
    /\ pc[1] = "failed" /\ stream[1] = "complete" /\ handler[1] = "returned"
    /\ pc[2] = "done" /\ Len(incidents) = 1

\* C12: a turn whose synthesis fails leaves the coordinator state as it was: the
\* step in which the synthesis fails, like every step of a turn but its commit,
\* changes neither the incident sequence nor lastUpdated, and the turn has
\* appended nothing and is over.
C12_SynthesisFailureKeepsState ==
    /\ [](\A t \in Turns : stream[t] = "error" => pc[t] = "failed" /\ appends[t] = 0)
    /\ [][\A t \in Turns : (pc'[t] # pc[t] /\ pc'[t] # "done") =>
            /\ incidents' = incidents
            /\ lastUpdated' = lastUpdated
            /\ removed' = removed /\ appends' = appends /\ nextId' >= nextId]_vars

\* C12 witness: the synthesis of one turn failed at a later instant than the
\* commit of the other turn, whose record and lastUpdated are as that commit left them.
C12_Witness ==
    \E t, u \in Turns :
        /\ stream[t] = "error" /\ pc[t] = "failed"
        /\ pc[u] = "done" /\ Len(incidents) = 1 /\ removed = {}
        /\ lastUpdated < now

\* the id of the body is missing or is not a string
C13_NoStringId(req) == req.json # "object" \/ req.id.type # "string"

\* C13: a delete-incident request whose body is not JSON, is null, has no id or has
\* an id that is not a string is answered 400 by fetch and by onRequest, and does
\* not reach the store: deleteIncident is not called and the incident sequence,
\* lastUpdated and the removed ids stay as they were.
C13_BadIdRejected ==
    [][\A req \in DeleteRequests, storeOk \in BOOLEAN :
          (C13_NoStringId(req) /\ (Fetch(req, storeOk) \/ OnRequest(req, storeOk))) =>
              /\ response'.from = "coordinator"
              /\ response'.status = 400
              /\ ~response'.success
              /\ lastCall'.op # "deleteIncident"
              /\ incidents' = incidents
              /\ lastUpdated' = lastUpdated
              /\ removed' = removed]_vars

\* C13 witness: a request has been answered 400 while the store holds the record of
\* id 1 (the number 1 is among the ids that are not strings) at a later instant
\* than its last update.
C13_Witness ==
    /\ response.status = 400
    /\ lastCall = NoCall
    /\ 1 \in IdsOf(incidents)
    /\ lastUpdated < now

\* the id of the body is a string that is not empty
C14_StringId(req) == req.json = "object" /\ req.id.type = "string" /\ req.id.len > 0

\* C14: a POST delete-incident request whose id is a non-empty string is answered
\* by fetch and by onRequest with 200 and {success: true, deletedId: id} when the
\* store call succeeds, after which no record has that id, and with 500 and
\* {success: false, error: "Internal error"} when the store call throws; every
\* request is answered by the handler or by the base class, never by an exception.
C14_ValidIdAnswered ==
    /\ [](response.from \in {"none", "coordinator", "super"})
    /\ [][\A req \in DeleteRequests : C14_StringId(req) =>
            /\ (Fetch(req, TRUE) \/ OnRequest(req, TRUE)) =>
                  /\ response' = [from |-> "coordinator", status |-> 200, success |-> TRUE,
                                  deletedId |-> <<req.id.id>>, error |-> ""]
                  /\ lastCall'.op = "deleteIncident"
                  /\ req.id.id \notin IdsOf(incidents')
            /\ (Fetch(req, FALSE) \/ OnRequest(req, FALSE)) =>
                  /\ response' = [from |-> "coordinator", status |-> 500, success |-> FALSE,
                                  deletedId |-> <<>>, error |-> "Internal error"]
                  /\ incidents' = incidents]_vars

\* C14 witness: a request has been answered 200 with the id of a record that was
\* in the store and is there no more.
C14_Witness ==
    /\ response.status = 200
    /\ response.deletedId = <<1>>
    /\ lastCall = [op |-> "deleteIncident", hit |-> TRUE]
    /\ 1 \in removed
    /\ incidents = <<>>

\* C15 (as claimed): once the abort signal of a decision turn has fired, in the
\* fan-out or while the synthesis streams, the synthesis stops: its stream is never
\* delivered complete and the persist task never gets its text.
C15_AbortStopsSynthesis ==
    \A t \in Turns : aborted[t] => stream[t] # "complete" /\ pc[t] \notin {"summary", "done"}

\* C16: in a decision turn the synthesis stream is merged into the writer before
\* the persist task has done anything (no text, no incident, no append while no
\* stream is merged); the execute callback returns in the step that merges the
\* stream, with the persist task still before its first result; and while the
\* persist task waits for the synthesis text or for the summary, the callback has
\* returned, the stream is with the caller, and a turn that has not started can
\* be started.
C16_StreamBeforePersist ==
    /\ [](\A t \in Turns :
            /\ stream[t] = "none" =>
                  synthesisText[t] = <<>> /\ incident[t] = NoIncident /\ appends[t] = 0
            /\ pc[t] \in {"synthesis", "summary"} =>
                  /\ handler[t] = "returned"
                  /\ stream[t] \in {"open", "complete"}
                  /\ \A u \in C11_Startable : ENABLED (\E q \in Questions : ChatMessage(u, q)))
    /\ [][\A t \in Turns : (handler[t] = "running" /\ handler'[t] = "returned") =>
            /\ pc'[t] = "synthesis" /\ stream'[t] = "open"
            /\ synthesisText'[t] = <<>> /\ incident'[t] = NoIncident /\ appends'[t] = 0]_vars

\* C16 witness: while the persist task of the first turn waits for its summary,
\* with the stream delivered and the callback returned, the second turn has run
\* from its start to its stored record.
C16_Witness ==
    /\ pc[1] = "summary" /\ handler[1] = "returned" /\ stream[1] = "complete"
    /\ pc[2] = "done" /\ handler[2] = "returned"
    /\ Len(incidents) = 1 /\ incidents[1].id = 2

\* the fallback literal of each role, as the catch blocks spell it
C17_FallbackOf ==
    [r \in Roles |->
        CASE r = "reliability" -> RELIABILITY_FALLBACK
          [] r = "cost" -> COST_FALLBACK
          [] r = "ux" -> UX_FALLBACK]

\* C17: every record in the store has a hypothesis for each of the three roles and
\* for no other, each the text the provider of that role returned or the fallback
\* literal of that same role; for the record of a finished turn it is the fallback
\* exactly for the roles whose provider call threw, whichever of them threw.
C17_HypothesesPopulated ==
    /\ \A i \in 1..Len(incidents) :
          /\ DOMAIN incidents[i].hypotheses = Roles
          /\ \A r \in Roles :
                /\ incidents[i].hypotheses[r] # <<>>
                /\ incidents[i].hypotheses[r] \in ProviderTexts(r) \cup {C17_FallbackOf[r]}
    /\ \A t \in Done : \A i \in Stored(incident[t].id) : \A r \in Roles :
          IF call[t][r] = "error"
          THEN incidents[i].hypotheses[r] = C17_FallbackOf[r]
          ELSE call[t][r] = "ok" /\ incidents[i].hypotheses[r] \in ProviderTexts(r)

\* C17 witness: the store holds the record of a turn in which all three provider
\* calls threw and the record of a turn in which exactly two threw.
C17_Witness ==
    \E t, u \in Turns :
        /\ pc[t] = "done" /\ Threw(t) = Roles
        /\ pc[u] = "done" /\ Threw(u) = {"reliability", "ux"}
        /\ Len(incidents) = 2
        /\ \E i \in Stored(incident[t].id) :
              \A r \in Roles : incidents[i].hypotheses[r] = C17_FallbackOf[r]
        /\ \E i \in Stored(incident[u].id) : incidents[i].hypotheses["cost"] \in ProviderTexts("cost")

\* C18 (as claimed): every record in the store has at least one and at most three
\* reasoning entries, whatever the synthesis text was.
C18_ReasoningOneToThree ==
    \A i \in 1..Len(incidents) :
        Len(incidents[i].reasoning) >= 1 /\ Len(incidents[i].reasoning) <= MaxReasons

\* the words of the decision marker, the marker as the synthesis prompt spells it,
\* and the opening of the reasoning marker
C19_Words == <<"F", "i", "n", "a", "l", " ", "R", "e", "c", "o", "m", "m", "e", "n", "d", "a", "t", "i", "o", "n">>
C19_FinalMarker == <<"*", "*", "F", "i", "n", "a", "l", " ", "R", "e", "c", "o", "m", "m", "e", "n", "d", "a", "t", "i", "o", "n", ":", "*", "*">>
C19_WhyMarker == <<"*", "*", "W", "h", "y">>

\* the turns whose persist task holds a synthesis text and the incident built from it
C19_Extracted == {t \in Turns : pc[t] = "summary"}

\* C19 (as claimed): a synthesis text without the words "Final Recommendation"
\* gives the fallback decision and the single fallback reasoning entry.
C19_NoMarkerBothFallbacks ==
    \A t \in C19_Extracted : ~C9_Contains(synthesisText[t], C19_Words) =>
        /\ incident[t].decision = NO_DECISION
        /\ incident[t].reasoning = <<DEFAULT_REASON>>

\* C19 (amended): each field falls back on its own marker: a synthesis text without
\* "**Final Recommendation:**" (in any letter case) gives the decision "No clear
\* decision reached", a text without "**Why" gives the single reasoning entry
\* "Decision made based on agent perspectives", and the extraction always ends with
\* an incident built.
C19_FallbackPerMarker ==
    \A t \in C19_Extracted :
        /\ incident[t].id # 0 /\ incident[t].status = "open"
        /\ ~C9_Contains(synthesisText[t], C19_FinalMarker) =>
              incident[t].decision =
                  <<"N", "o", " ", "c", "l", "e", "a", "r", " ", "d", "e", "c", "i", "s", "i", "o", "n", " ", "r", "e", "a", "c", "h", "e", "d">>
        /\ ~C9_Contains(synthesisText[t], C19_WhyMarker) =>
              incident[t].reasoning = <<<<"D", "e", "c", "i", "s", "i", "o", "n", " ", "m", "a", "d", "e", " ", "b", "a", "s", "e", "d", " ", "o", "n", " ", "a", "g", "e", "n", "t", " ", "p", "e", "r", "s", "p", "e", "c", "t", "i", "v", "e", "s">>>>

\* C19 witness: from a text with a reasoning block and no decision marker the
\* incident has the fallback decision and the reasoning of the block.
C19_Witness ==
    \E t \in C19_Extracted :
        /\ ~C9_Contains(synthesisText[t], C19_Words)
        /\ C9_Contains(synthesisText[t], C19_WhyMarker)
        /\ incident[t].decision = NO_DECISION
        /\ incident[t].reasoning = <<<<"A">>>>

\* the keywords of the claim
C20_Keywords == {
    <<"r", "o", "l", "l", "b", "a", "c", "k">>,
    <<"d", "e", "p", "l", "o", "y">>,
    <<"h", "o", "t", "f", "i", "x">>,
    <<"l", "a", "u", "n", "c", "h">>,
    <<"r", "e", "l", "e", "a", "s", "e">>,
    <<"s", "h", "o", "u", "l", "d", " ", "w", "e">>,
    <<"d", "e", "c", "i", "s", "i", "o", "n">> }

C20_HasKeyword(q) == \E kw \in C20_Keywords : C9_Contains(q, kw)

\* C20: a turn takes the decision branch exactly when its question contains one of
\* the seven keywords, letter case apart and anywhere in the text: a turn in the
\* regular chat flow has a question without keyword (the empty text of a missing
\* or empty message among them), a turn in the fan-out or in its persist task has
\* a question with one, and so has every stored record.
C20_ClassifiedByKeyword ==
    /\ \A t \in Turns :
          /\ pc[t] = "chat" => ~C20_HasKeyword(userQuestion[t])
          /\ pc[t] \in Roles \cup {"synthesis", "summary"} => C20_HasKeyword(userQuestion[t])
    /\ \A i \in 1..Len(incidents) : C20_HasKeyword(incidents[i].question)

\* C20 witness: a question with a keyword in capitals inside a word is in the
\* fan-out.
C20_Witness ==
    /\ pc[1] = "reliability"
    /\ userQuestion[1] = <<"p", "r", "e", "R", "E", "L", "E", "A", "S", "E", "d">>

\* the question of the example
C21_Example == <<"e", "r", "r", "o", "r", " ", "r", "a", "t", "e", " ", "i", "s", " ", "6", ".", "5", "%", ",", " ", "p", "9", "5", " ", "l", "a", "t", "e", "n", "c", "y", ":", " ", "1", "2", "0", "m", "s">>

\* C21 (as claimed): an incident built from a question that contains "error rate
\* is 6.5%, p95 latency: 120ms" has the metricsSnapshot {errorRate: 6.5,
\* latency: 120}.
C21_ExampleSnapshot ==
    \A t \in Turns :
        (pc[t] = "summary" /\ C9_Contains(userQuestion[t], C21_Example)) =>
            incident[t].metricsSnapshot =
                <<[errorRate |-> <<[nan |-> FALSE, mant |-> 65, exp |-> 1]>>,
                   latency |-> <<[nan |-> FALSE, mant |-> 120, exp |-> 0]>>]>>

C22_Pending(t) == pc[t] \in Roles \cup {"synthesis", "summary"}

\* C22: when every awaited completion call is eventually settled, a decision turn
\* that has started eventually is over: all three provider calls are resolved, to
\* a result or to the fallback, the synthesis has completed or failed, and the
\* persist task has committed its record ("done") or logged its failure ("failed").
C22_TurnTerminates ==
    \A t \in Turns :
        C22_Pending(t) ~>
            /\ pc[t] \in {"done", "failed"}
            /\ stream[t] \in {"complete", "error"}
            /\ pc[t] = "done" => (appends[t] = 1 /\ \A r \in Roles : call[t][r] \in {"ok", "error"})

\* C22 witness: both turns are over, one with its record committed after two of
\* its provider calls threw, the other with its synthesis failed.
C22_Witness ==
    \E t, u \in Turns :
        /\ pc[t] = "done" /\ appends[t] = 1 /\ Cardinality(Threw(t)) = 2
        /\ pc[u] = "failed" /\ stream[u] = "error"

\* the step in which the persist task of turn t sets the summary of its incident
C23_SetsSummary(t) == pc[t] = "summary" /\ pc'[t] = "done"

C24_SynthesisAfterJoin ==
    /\ [](\A t \in Turns :
            /\ pc[t] \in Roles => stream[t] = "none"
            /\ (\E r \in Roles : call[t][r] = "pending") => stream[t] = "none"
            /\ pc[t] \in {"synthesis", "summary"} =>
                  \A r \in Roles :
                      /\ call[t][r] \in {"ok", "error"}
                      /\ perspective[t][r] \in ProviderTexts(r) \cup {C17_FallbackOf[r]})
    /\ [][\A t \in Turns :
            /\ (stream'[t] = "open" /\ stream[t] # "open") =>
                  /\ stream[t] = "none" /\ pc[t] = "ux" /\ pc'[t] = "synthesis"
                  /\ \A r \in Roles : call'[t][r] \in {"ok", "error"}
            /\ stream[t] \in {"complete", "error"} => stream'[t] = stream[t]
            /\ stream[t] = "open" => stream'[t] \in {"open", "complete", "error"}]_vars

\* C24 witness: the synthesis of one turn streams after its cost call threw and
\* the two others returned, while the other turn still waits for its cost call.
C24_Witness ==
    \E t, u \in Turns :
        /\ pc[t] = "synthesis" /\ stream[t] = "open" /\ Threw(t) = {"cost"}
        /\ pc[u] = "cost" /\ stream[u] = "none" /\ call[u]["ux"] = "idle"

\* C25: a record comes into the store only in the commit of a turn whose synthesis
\* stream has ended complete and whose persist task holds the text; a turn whose
\* synthesis has not completed has appended nothing, and every record in the
\* store is the record of a turn whose synthesis completed.
C25_RecordAfterSynthesis ==
    /\ [](\A t \in Turns : stream[t] # "complete" => appends[t] = 0 /\ pc[t] # "done")
    /\ [](\A i \in 1..Len(incidents) : \E t \in Turns :
            pc[t] = "done" /\ stream[t] = "complete" /\ incident[t].id = incidents[i].id)
    /\ [][Len(incidents') > Len(incidents) =>
            \E t \in Turns :
                /\ stream[t] = "complete" /\ synthesisText[t] \in SynthTexts
                /\ pc[t] = "summary" /\ pc'[t] = "done"
                /\ incidents'[Len(incidents')].decision = Extracted[synthesisText[t]].decision]_vars

\* C25 witness: one record is in the store, of a turn whose synthesis completed,
\* while the synthesis of the other turn still streams.
C25_Witness ==
    \E t, u \in Turns :
        /\ pc[t] = "done" /\ stream[t] = "complete" /\ Stored(incident[t].id) # {}
        /\ pc[u] = "synthesis" /\ stream[u] = "open" /\ appends[u] = 0
        /\ Len(incidents) = 1

\* C26: a turn whose question has no keyword takes the regular chat flow and
\* nothing else: in the step that starts it no provider call is made, the stream
\* that is merged is not a synthesis stream, no incident is built, and the incident
\* sequence, lastUpdated and the id counter stay as they were; and the turn never
\* leaves the regular chat flow, so it never appends.
C26_ChatTurnFrame ==
    /\ [](\A t \in Turns : pc[t] = "chat" =>
            /\ \A r \in Roles : call[t][r] = "idle" /\ perspective[t][r] = <<>>
            /\ stream[t] = "chat" /\ synthesisText[t] = <<>>
            /\ incident[t] = NoIncident /\ appends[t] = 0)
    /\ [][\A t \in Turns :
            /\ (pc[t] = "idle" /\ pc'[t] # "idle" /\ ~C20_HasKeyword(userQuestion'[t])) =>
                  /\ pc'[t] = "chat"
                  /\ call' = call
                  /\ incidents' = incidents /\ lastUpdated' = lastUpdated
                  /\ nextId' = nextId /\ removed' = removed
            /\ pc[t] = "chat" => pc'[t] = "chat"]_vars

\* C26 witness: the first turn is in the regular chat flow; the second, a decision
\* turn, has stored the only record, at a later instant than the start of the store.
C26_Witness ==
    /\ pc[1] = "chat" /\ stream[1] = "chat" /\ appends[1] = 0
    /\ ~C20_HasKeyword(userQuestion[1])
    /\ pc[2] = "done" /\ Len(incidents) = 1 /\ lastUpdated > 0

\* C27: a turn appends at most once and a turn that failed has not appended and never
\* does: it stays failed. The incident sequence grows by one record at a time, and
\* only in the step in which a persist task ends its summary call and commits; that
\* step adds one record with the question of the turn at the end of the sequence,
\* whatever questions are stored already.
C27_OneAppendPerTurn ==
    /\ [](\A t \in Turns : appends[t] <= 1 /\ (pc[t] = "failed" => appends[t] = 0))
    /\ [][/\ (\A t \in Turns :
               /\ pc[t] = "failed" => pc'[t] = "failed" /\ appends'[t] = 0
               /\ pc[t] = "done" => pc'[t] = "done" /\ appends'[t] = 1
               /\ (pc[t] = "summary" /\ pc'[t] = "done") =>
                     /\ Len(incidents') = Len(incidents) + 1
                     /\ incidents'[Len(incidents')].question = userQuestion[t]
                     /\ incidents'[Len(incidents')].id = incident[t].id
                     /\ appends[t] = 0 /\ appends'[t] = 1)
          /\ (Len(incidents') > Len(incidents) =>
                 \E u \in Turns : pc[u] = "summary" /\ pc'[u] = "done")]_vars

\* C27 witness: two turns asked the same question and each has stored its own record
C27_Witness ==
    /\ Len(incidents) = 2
    /\ incidents[1].question = incidents[2].question
    /\ incidents[1].id # incidents[2].id
    /\ \A t \in Turns : pc[t] = "done" /\ appends[t] = 1

\* C28: every stored record has status open, and a record that is stored before and
\* after a step, whether the step appends, deletes or sorts, has after the step the
\* id, question, timestamp, hypotheses, decision, reasoning and status it had before.
C28_RecordsImmutable ==
    /\ [](\A i \in 1..Len(incidents) : incidents[i].status = "open")
    /\ [][\A i \in 1..Len(incidents), j \in 1..Len(incidents') :
            incidents'[j].id = incidents[i].id =>
               /\ incidents'[j].question = incidents[i].question
               /\ incidents'[j].timestamp = incidents[i].timestamp
               /\ incidents'[j].hypotheses = incidents[i].hypotheses
               /\ incidents'[j].decision = incidents[i].decision
               /\ incidents'[j].reasoning = incidents[i].reasoning
               /\ incidents'[j].status = incidents[i].status]_vars

\* C28 witness: a record has been through the append and the delete of another
\* record and through a sort of the stored sequence
C28_Witness ==
    /\ Len(incidents) = 1 /\ removed # {}
    /\ incidents[1].status = "open"
    /\ lastCall = [op |-> "getIncidents", hit |-> FALSE]
    /\ \A t \in Turns : pc[t] = "done"

\* C29: every commit is computed from the stored sequence as it is in the step that
\* commits. The append of a turn puts the turn's record after the records stored at
\* that moment, whatever was deleted while the turn was suspended; a delete takes
\* out the records with its id and nothing else; a removed id is never stored
\* again; and no other step changes which records are stored.
C29_CommitsInOrder ==
    [][/\ \A t \in Turns : (pc[t] = "summary" /\ pc'[t] = "done") =>
              /\ SubSeq(incidents', 1, Len(incidents)) = incidents
              /\ Len(incidents') = Len(incidents) + 1
              /\ incidents'[Len(incidents')].id = incident[t].id
              /\ removed' = removed
       /\ lastCall'.op = "deleteIncident" =>
              /\ \E id \in DeleteIds : incidents' = removeId(incidents, id)
              /\ Len(incidents') = IF lastCall'.hit THEN Len(incidents) - 1 ELSE Len(incidents)
              /\ removed' = removed \cup (IdsOf(incidents) \ IdsOf(incidents'))
       /\ removed \subseteq removed' /\ IdsOf(incidents') \cap removed' = {}
       /\ IdsOf(incidents') # IdsOf(incidents) =>
              \/ lastCall'.op = "deleteIncident"
              \/ \E t \in Turns : pc[t] = "summary" /\ pc'[t] = "done"]_vars

\* C29 witness: a delete has just taken a stored record out while the other turn is
\* suspended in its summary call, its record built and not yet stored
C29_Witness ==
    \E t \in Turns :
        /\ pc[t] = "summary" /\ incident[t].id \notin IdsOf(incidents) \cup removed
        /\ lastCall = [op |-> "deleteIncident", hit |-> TRUE]
        /\ removed # {} /\ incidents = <<>>

\* the body is not JSON, or its id is the empty string
C30_Unanswerable(req) ==
    \/ req.json = "invalid"
    \/ req.json = "object" /\ req.id.type = "string" /\ req.id.len = 0

\* C30: for every POST delete-incident request, every outcome of the store call and
\* every state, fetch and onRequest take the same step: the same response and the
\* same state after it. A body that is not JSON and an id that is the empty string
\* are answered with 400 "Missing incident id" by both, with no store call and the
\* state as it was.
C30_SameDeleteHandling ==
    [][\A req \in DeleteRequests, storeOk \in BOOLEAN :
          /\ Fetch(req, storeOk) <=> OnRequest(req, storeOk)
          /\ (C30_Unanswerable(req) /\ (Fetch(req, storeOk) \/ OnRequest(req, storeOk))) =>
                /\ response' = missingIdResponse
                /\ lastCall' = NoCall
                /\ incidents' = incidents /\ lastUpdated' = lastUpdated
                /\ removed' = removed]_vars

\* C30 witness: a request has just been answered 400 with the error of the missing
\* id, with no store call, while the store holds a record written at this instant
C30_Witness ==
    /\ response = missingIdResponse
    /\ lastCall = NoCall
    /\ Len(incidents) = 1 /\ lastUpdated = now /\ now > 0

====
